---- MODULE Spec2Model ----
(***************************************************************************)
(* Model of rkyv's archived IndexMap (src/rkyv/src/impls/indexmap.rs):     *)
(* the build/serialize protocol writing into a serializer buffer, the      *)
(* resolve step emplacing the root structure, and the read side (find,     *)
(* get, get_index, iteration, equality, deserialize) working on the        *)
(* buffer through relative pointers.                                       *)
(*                                                                         *)
(* Indices are 0-based as in the source; buffer positions are 1-based      *)
(* positions in the sequence buf.                                          *)
(***************************************************************************)
EXTENDS Integers, Sequences, FiniteSets, TLC

\* ---------------------------------------------------------------- bounds
NumKeys == 3
MaxLen == 2
PairMaxLen == 2

Keys == 1..NumKeys

\* The code never inspects a value: it moves values and compares them for
\* equality, so two distinct values reach every path.
Values == {10, 20}

\* ---------------------------------------------------------------- options
None == [some |-> FALSE]
Some(x) == [some |-> TRUE, val |-> x]

Min(a, b) == IF a < b THEN a ELSE b

\* ------------------------------------------------ the mutable ordered map
\* An IndexMap is the sequence of its (key, value) pairs in insertion order,
\* keys unique.
UniqueKeys(m) == \A i, j \in 1..Len(m) : m[i][1] = m[j][1] => i = j

MapsOfLen(n) == {m \in [1..n -> Keys \X Values] : UniqueKeys(m)}

Maps == UNION {MapsOfLen(n) : n \in 0..MaxLen}

KeysOf(m) == {m[i][1] : i \in 1..Len(m)}
ValuesOf(m) == {m[i][2] : i \in 1..Len(m)}

\* The maps of the two-archive scenario: keys 1..PairMaxLen, any order.
PairMaps ==
    UNION {{m \in [1..n -> (1..PairMaxLen) \X Values] : UniqueKeys(m)} : n \in 0..PairMaxLen}

\* IndexMap::get_index_of: the 0-based insertion position of a key.
IndexMap_get_index_of(m, k) ==
    IF \E i \in 1..Len(m) : m[i][1] = k
    THEN Some((CHOOSE i \in 1..Len(m) : m[i][1] = k) - 1)
    ELSE None

\* IndexMap::insert: a new key is appended, an existing key keeps its
\* position and has its value replaced.
IndexMap_insert(m, k, v) ==
    IF IndexMap_get_index_of(m, k).some
    THEN [m EXCEPT ![IndexMap_get_index_of(m, k).val + 1] = <<k, v>>]
    ELSE Append(m, <<k, v>>)

\* ---------------------------------------------------------------- results
Ok(x) == [ok |-> TRUE, val |-> x]
Err(e) == [ok |-> FALSE, err |-> e]
Pending == [ok |-> FALSE, pending |-> TRUE]
IsErr(r) == r # Pending /\ ~r.ok
IsOk(r) == r # Pending /\ r.ok

\* The error of the serializer itself (align_for, resolve_aligned, the hash
\* index build), as opposed to the error of an element.
SerializerError == <<"serializer", 0>>

VARIABLES
    src,            \* the IndexMap being serialized (self)
    failK,          \* the keys of src whose Serialize implementation fails
    failV,          \* the values of src whose Serialize implementation fails
    pc,             \* position inside serialize / resolve
    buf,            \* the serializer's output, a sequence of cells
    entries,        \* serialize: `entries`, the pairs in hash-index slot order
    resolvers,      \* serialize: `resolvers`
    index_resolver, \* serialize: `index_resolver`
    entries_pos,    \* serialize: `entries_pos`
    pivots_pos,     \* serialize: `pivots_pos`
    log,            \* the element serialize / deserialize calls made so far
    ret,            \* what serialize returned
    root,           \* position of the resolved ArchivedIndexMap, 0 if none
    prev,           \* position of an earlier root in the same buffer, 0 if none
    prev_src,       \* the source map of the earlier root
    res,            \* the outcome of the last read operation
    iter_st,        \* a RawIter over the archive and what it has yielded
    de              \* the state of deserialize

vars == <<src, failK, failV, pc, buf, entries, resolvers, index_resolver,
          entries_pos, pivots_pos, log, ret, root, prev, prev_src, res,
          iter_st, de>>

serVars == <<entries, resolvers, index_resolver, entries_pos, pivots_pos>>
readVars == <<res, iter_st, de>>

\* ------------------------------------------------------------ buffer cells
DisplaceCell(k) == [t |-> "displace", h |-> k]
BlobCell(k) == [t |-> "blob", d |-> k]
EntryCell(ak, av) == [t |-> "entry", key |-> ak, value |-> av]
PivotCell(n) == [t |-> "pivot", v |-> n]

\* RelPtr::emplace: the offset stored is relative to the pointer's own
\* position; RelPtr::as_ptr adds it back.
RelPtr_emplace(from, to) == to - from
RelPtr_as_ptr(from, offset) == from + offset

NoIter == [current |-> 0, remaining |-> 0, yielded |-> <<>>, live |-> FALSE]
NoDe == [st |-> "idle"]
NoRes == [op |-> "none"]

InitRest ==
    /\ pc = "start"
    /\ buf = <<>>
    /\ entries = <<>>
    /\ resolvers = <<>>
    /\ index_resolver = 0
    /\ entries_pos = 0
    /\ pivots_pos = 0
    /\ log = <<>>
    /\ ret = Pending
    /\ root = 0
    /\ prev = 0
    /\ prev_src = <<>>
    /\ res = NoRes
    /\ iter_st = NoIter
    /\ de = NoDe

Init ==
    /\ src \in Maps
    /\ failK \in SUBSET KeysOf(src)
    /\ failV \in SUBSET ValuesOf(src)
    /\ InitRest

\* ------------------------------------------------------------- serialize
\* A failing `?` inside serialize: the error is returned, the locals are
\* dropped.
Abort(e) ==
    /\ ret' = Err(e)
    /\ pc' = "returned"
    /\ entries' = <<>>
    /\ resolvers' = <<>>
    /\ index_resolver' = 0
    /\ entries_pos' = 0
    /\ pivots_pos' = 0

\* ArchivedHashIndex::build_and_serialize: writes the table (one cell per
\* occupied slot) and returns the pairs in the table's slot order, which is
\* any permutation of the insertion order.
BuildIndex ==
    /\ pc = "start"
    /\ \/ /\ Abort(SerializerError)
          /\ UNCHANGED <<buf, log>>
       \/ \E p \in Permutations(1..Len(src)) :
            /\ entries' = [i \in 1..Len(src) |-> src[p[i]]]
            /\ buf' = buf \o [i \in 1..Len(src) |-> DisplaceCell(src[p[i]][1])]
            /\ index_resolver' = Len(buf) + 1
            /\ pc' = "collect"
            /\ UNCHANGED <<resolvers, entries_pos, pivots_pos, log, ret>>
    /\ UNCHANGED <<src, failK, failV, root, prev, prev_src>>
    /\ UNCHANGED readVars

\* The collect step with the value serialized before the key.
SerializeEntry_value_first ==
    /\ pc = "collect"
    /\ Len(resolvers) < Len(src)
    /\ LET key == src[Len(resolvers) + 1][1]
           value == src[Len(resolvers) + 1][2]
       IN  IF value \in failV
           THEN /\ log' = Append(log, <<"value", value>>)
                /\ Abort(<<"value", value>>)
                /\ UNCHANGED buf
           ELSE IF key \in failK
           THEN /\ log' = log \o << <<"value", value>>, <<"key", key>> >>
                /\ Abort(<<"key", key>>)
                /\ UNCHANGED buf
           ELSE /\ log' = log \o << <<"value", value>>, <<"key", key>> >>
                /\ buf' = Append(buf, BlobCell(key))
                /\ resolvers' = Append(resolvers, <<Len(buf) + 1, 0>>)
                /\ UNCHANGED <<entries, index_resolver, entries_pos,
                               pivots_pos, ret, pc>>
    /\ UNCHANGED <<src, failK, failV, root, prev, prev_src>>
    /\ UNCHANGED <<res, iter_st, de>>

\* One step of the map(...).collect::<Result<Vec<_>, _>>() over self.iter():
\* the key is serialized, then the value; the first Err ends the collect.
\* A key is stored out of line (its serialize writes a blob and the resolver
\* is the blob's position), a value is stored inline (resolver is unit).
SerializeEntry ==
    /\ pc = "collect"
    /\ Len(resolvers) < Len(src)
    /\ LET key == src[Len(resolvers) + 1][1]
           value == src[Len(resolvers) + 1][2]
       IN  IF key \in failK
           THEN /\ log' = Append(log, <<"key", key>>)
                /\ Abort(<<"key", key>>)
                /\ UNCHANGED buf
           ELSE IF value \in failV
           THEN /\ log' = log \o << <<"key", key>>, <<"value", value>> >>
                /\ buf' = Append(buf, BlobCell(key))
                /\ Abort(<<"value", value>>)
           ELSE /\ log' = log \o << <<"key", key>>, <<"value", value>> >>
                /\ buf' = Append(buf, BlobCell(key))
                /\ resolvers' = Append(resolvers, <<Len(buf) + 1, 0>>)
                /\ UNCHANGED <<entries, index_resolver, entries_pos,
                               pivots_pos, ret, pc>>
    /\ UNCHANGED <<src, failK, failV, root, prev, prev_src>>
    /\ UNCHANGED readVars

\* serializer.align_for::<Entry<..>>()?
AlignEntries ==
    /\ pc = "collect"
    /\ Len(resolvers) = Len(src)
    /\ \/ Abort(SerializerError)
       \/ /\ entries_pos' = Len(buf) + 1
          /\ pc' = "entries"
          /\ UNCHANGED <<entries, resolvers, index_resolver, pivots_pos, ret>>
    /\ UNCHANGED <<src, failK, failV, buf, log, root, prev, prev_src>>
    /\ UNCHANGED readVars

\* Entry::resolve: the archived key points back to its blob, the archived
\* value is written in place.
Entry_resolve(pos, key, value, resolver) ==
    EntryCell([ptr |-> RelPtr_emplace(pos, resolver[1])], [archived |-> value])

\* One step of the loop over self.iter().zip(resolvers.drain(..)).
ResolveEntry ==
    /\ pc = "entries"
    /\ Len(buf) + 1 - entries_pos < Min(Len(src), Len(resolvers))
    /\ LET i == Len(buf) + 1 - entries_pos + 1
       IN  \/ /\ Abort(SerializerError)
              /\ UNCHANGED buf
           \/ /\ buf' = Append(buf, Entry_resolve(Len(buf) + 1, src[i][1],
                                                  src[i][2], resolvers[i]))
              /\ UNCHANGED <<entries, resolvers, index_resolver, entries_pos,
                             pivots_pos, ret, pc>>
    /\ UNCHANGED <<src, failK, failV, log, root, prev, prev_src>>
    /\ UNCHANGED readVars

\* serializer.align_for::<Archived<usize>>()? ; resolvers has been drained.
AlignPivots ==
    /\ pc = "entries"
    /\ Len(buf) + 1 - entries_pos = Min(Len(src), Len(resolvers))
    /\ \/ Abort(SerializerError)
       \/ /\ pivots_pos' = Len(buf) + 1
          /\ resolvers' = <<>>
          /\ pc' = "pivots"
          /\ UNCHANGED <<entries, index_resolver, entries_pos, ret>>
    /\ UNCHANGED <<src, failK, failV, buf, log, root, prev, prev_src>>
    /\ UNCHANGED readVars

\* The pivot loop writing the slot's own number.
WritePivot_slot ==
    /\ pc = "pivots"
    /\ Len(buf) + 1 - pivots_pos < Len(entries)
    /\ \/ /\ Abort(SerializerError)
          /\ UNCHANGED buf
       \/ /\ buf' = Append(buf, PivotCell(Len(buf) + 1 - pivots_pos))
          /\ UNCHANGED <<entries, resolvers, index_resolver, entries_pos,
                         pivots_pos, ret, pc>>
    /\ UNCHANGED <<src, failK, failV, log, root, prev, prev_src>>
    /\ UNCHANGED <<res, iter_st, de>>

\* One step of the loop over entries.iter(): the pivot of a slot is the
\* insertion position of the slot's key.
WritePivot ==
    /\ pc = "pivots"
    /\ Len(buf) + 1 - pivots_pos < Len(entries)
    /\ LET key == entries[Len(buf) + 1 - pivots_pos + 1][1]
       IN  \/ /\ Abort(SerializerError)
              /\ UNCHANGED buf
           \/ /\ buf' = Append(buf, PivotCell(IndexMap_get_index_of(src, key).val))
              /\ UNCHANGED <<entries, resolvers, index_resolver, entries_pos,
                             pivots_pos, ret, pc>>
    /\ UNCHANGED <<src, failK, failV, log, root, prev, prev_src>>
    /\ UNCHANGED readVars

\* Ok(IndexMapResolver { index_resolver, pivots_pos, entries_pos })
ReturnOk ==
    /\ pc = "pivots"
    /\ Len(buf) + 1 - pivots_pos = Len(entries)
    /\ ret' = Ok([index_resolver |-> index_resolver,
                  pivots_pos |-> pivots_pos,
                  entries_pos |-> entries_pos])
    /\ pc' = "returned"
    /\ entries' = <<>>
    /\ UNCHANGED <<resolvers, index_resolver, entries_pos, pivots_pos>>
    /\ UNCHANGED <<src, failK, failV, buf, log, root, prev, prev_src>>
    /\ UNCHANGED readVars

\* Archive::resolve for IndexMap, at the end of the buffer: the hash index
\* is resolved from self.len(), the two relative pointers are emplaced.
RootCell(pos, m, resolver) ==
    [t |-> "root",
     index |-> [len |-> Len(m),
                displace |-> RelPtr_emplace(pos, resolver.index_resolver)],
     pivots |-> RelPtr_emplace(pos, resolver.pivots_pos),
     entries |-> RelPtr_emplace(pos, resolver.entries_pos)]

Resolve ==
    /\ pc = "returned"
    /\ IsOk(ret)
    /\ buf' = Append(buf, RootCell(Len(buf) + 1, src, ret.val))
    /\ root' = Len(buf) + 1
    /\ pc' = "archived"
    /\ UNCHANGED <<src, failK, failV, log, ret, prev, prev_src>>
    /\ UNCHANGED serVars
    /\ UNCHANGED readVars

\* ------------------------------------------------------------- read side
\* ArchivedIndexMap::len is the hash index's len.
len(r) == buf[r].index.len

\* ArchivedIndexMap::pivot: *self.pivots.as_ptr().add(index)
pivot(r, index) == buf[RelPtr_as_ptr(r, buf[r].pivots) + index].v

\* ArchivedIndexMap::entry: &*self.entries.as_ptr().add(index); the
\* position of the entry in the buffer.
entry(r, index) == RelPtr_as_ptr(r, buf[r].entries) + index

\* The key and the value of the entry at position e, as the archived types
\* show them: the key's content is behind its relative pointer.
entry_key(e) == [archived |-> buf[RelPtr_as_ptr(e, buf[e].key.ptr)].d]
entry_value(e) == buf[e].value

\* Comparison of an archived key or value with an unarchived one.
ArchivedEq(a, u) == a.archived = u

\* K::Archived::deserialize, V::Archived::deserialize
Archived_deserialize(a) == a.archived

\* ArchivedHashIndex::index: the outcomes the table can give for a key.  A
\* key the table was built from resolves to its own slot; the table stores
\* no keys, so any other key resolves to nothing or to any occupied slot.
HashIndex_index(r, k) ==
    LET d == RelPtr_as_ptr(r, buf[r].index.displace)
        own == {s \in 0..(len(r) - 1) : buf[d + s].h = k}
    IN  IF len(r) = 0 THEN {None}
        ELSE IF own # {} THEN {Some(s) : s \in own}
        ELSE {None} \cup {Some(s) : s \in 0..(len(r) - 1)}

\* find without the final key comparison.
find_no_key_check(r, k, slot) ==
    IF ~slot.some THEN None ELSE Some(pivot(r, slot.val))

\* find answering the slot of the hash index instead of the pivot's value.
find_slot(r, k, slot) ==
    IF ~slot.some THEN None
    ELSE LET index == pivot(r, slot.val)
         IN  IF ArchivedEq(entry_key(entry(r, index)), k)
             THEN Some(slot.val)
             ELSE None

\* ArchivedIndexMap::find, given the outcome of self.index.index(k).
find(r, k, slot) ==
    IF ~slot.some THEN None
    ELSE LET index == pivot(r, slot.val)
         IN  IF ArchivedEq(entry_key(entry(r, index)), k)
             THEN Some(index)
             ELSE None

get(r, k, slot) ==
    LET f == find(r, k, slot)
    IN  IF f.some THEN Some(entry_value(entry(r, f.val))) ELSE None

get_full(r, k, slot) ==
    LET f == find(r, k, slot)
    IN  IF f.some
        THEN Some(<<f.val, entry_key(entry(r, f.val)), entry_value(entry(r, f.val))>>)
        ELSE None

get_index_of(r, k, slot) == find(r, k, slot)

\* get_index with the bound off by one.
get_index_short(r, index) ==
    IF index + 1 < len(r)
    THEN [out |-> Some(<<entry_key(entry(r, index)), entry_value(entry(r, index))>>),
          read |-> {entry(r, index)}]
    ELSE [out |-> None, read |-> {}]

\* ArchivedIndexMap::get_index; `read` is the set of entry positions it
\* dereferences.
get_index(r, index) ==
    IF index < len(r)
    THEN [out |-> Some(<<entry_key(entry(r, index)), entry_value(entry(r, index))>>),
          read |-> {entry(r, index)}]
    ELSE [out |-> None, read |-> {}]

\* raw_iter with one item too few.
raw_iter_short(r) ==
    [current |-> RelPtr_as_ptr(r, buf[r].entries),
     remaining |-> IF len(r) > 0 THEN len(r) - 1 ELSE 0]

\* RawIter::new through ArchivedIndexMap::raw_iter.
raw_iter(r) == [current |-> RelPtr_as_ptr(r, buf[r].entries), remaining |-> len(r)]

\* RawIter::next without the advance of `current`.
RawIter_next_no_advance(it) ==
    IF it.remaining = 0
    THEN [item |-> None, it |-> it]
    ELSE [item |-> Some(<<entry_key(it.current), entry_value(it.current)>>),
          it |-> [current |-> it.current, remaining |-> it.remaining - 1]]

\* RawIter::next: the item and the iterator afterwards.
RawIter_next(it) ==
    IF it.remaining = 0
    THEN [item |-> None, it |-> it]
    ELSE [item |-> Some(<<entry_key(it.current), entry_value(it.current)>>),
          it |-> [current |-> it.current + 1, remaining |-> it.remaining - 1]]

\* Everything an iterator yields until its first None.
RECURSIVE Collect(_)
Collect(it) ==
    LET n == RawIter_next(it)
    IN  IF n.item.some THEN <<n.item.val>> \o Collect(n.it) ELSE <<>>

\* ArchivedIndexMap::iter, collected.
iter(r) == Collect(raw_iter(r))

\* Iterator::eq on two archived iterators.
RECURSIVE Iterator_eq(_, _)
Iterator_eq(a, b) ==
    LET x == RawIter_next(a)
        y == RawIter_next(b)
    IN  IF ~x.item.some THEN ~y.item.some
        ELSE IF ~y.item.some THEN FALSE
        ELSE IF x.item.val # y.item.val THEN FALSE
        ELSE Iterator_eq(x.it, y.it)

\* Equality as an unordered comparison of the two maps' pairs.
eq_unordered(a, b) ==
    LET x == Collect(raw_iter(a))
        y == Collect(raw_iter(b))
    IN  {x[i] : i \in 1..Len(x)} = {y[i] : i \in 1..Len(y)}

\* PartialEq for ArchivedIndexMap
eq(a, b) == Iterator_eq(raw_iter(a), raw_iter(b))

\* PartialEq<IndexMap> for ArchivedIndexMap: zip stops at the shorter of
\* the two iterators, all holds of what was zipped.
RECURSIVE zip_all(_, _)
zip_all(a, other) ==
    LET x == RawIter_next(a)
    IN  IF ~x.item.some \/ other = <<>> THEN TRUE
        ELSE IF ~(ArchivedEq(x.item.val[1], Head(other)[1])
                  /\ ArchivedEq(x.item.val[2], Head(other)[2])) THEN FALSE
        ELSE zip_all(x.it, Tail(other))

eq_map(r, other) == zip_all(raw_iter(r), other)

Archived == pc = "archived"

\* The archive is immutable, so a read leaves nothing behind but its own
\* outcome: a behaviour follows one read operation on the archive, from the
\* state in which none has been recorded.
Fresh == Archived /\ res = NoRes /\ iter_st = NoIter /\ de = NoDe

readFrame == UNCHANGED <<src, failK, failV, pc, buf, log, ret, root, prev, prev_src>>
                 /\ UNCHANGED serVars

Get ==
    /\ Fresh
    /\ \E k \in Keys : \E slot \in HashIndex_index(root, k) :
         res' = [op |-> "get", key |-> k, slot |-> slot, out |-> get(root, k, slot)]
    /\ UNCHANGED <<iter_st, de>>
    /\ readFrame

GetFull ==
    /\ Fresh
    /\ \E k \in Keys : \E slot \in HashIndex_index(root, k) :
         res' = [op |-> "get_full", key |-> k, slot |-> slot,
                 out |-> get_full(root, k, slot)]
    /\ UNCHANGED <<iter_st, de>>
    /\ readFrame

GetIndexOf ==
    /\ Fresh
    /\ \E k \in Keys : \E slot \in HashIndex_index(root, k) :
         res' = [op |-> "get_index_of", key |-> k, slot |-> slot,
                 out |-> get_index_of(root, k, slot)]
    /\ UNCHANGED <<iter_st, de>>
    /\ readFrame

GetIndex ==
    /\ Fresh
    /\ \E index \in 0..(MaxLen + 1) :
         res' = [op |-> "get_index", index |-> index,
                 out |-> get_index(root, index).out,
                 read |-> get_index(root, index).read]
    /\ UNCHANGED <<iter_st, de>>
    /\ readFrame

\* archived == other, for a mutable map other
EqMap ==
    /\ Fresh
    /\ \E other \in Maps :
         res' = [op |-> "eq_map", other |-> other, out |-> eq_map(root, other)]
    /\ UNCHANGED <<iter_st, de>>
    /\ readFrame

\* a == b for two archived maps of the same buffer
EqArchived ==
    /\ Fresh
    /\ prev # 0
    /\ \E ab \in {<<prev, root>>, <<root, prev>>} :
         res' = [op |-> "eq", a |-> ab[1], b |-> ab[2], out |-> eq(ab[1], ab[2])]
    /\ UNCHANGED <<iter_st, de>>
    /\ readFrame

\* archived.iter()
IterNew ==
    /\ Fresh
    /\ iter_st' = [current |-> raw_iter(root).current,
                   remaining |-> raw_iter(root).remaining,
                   yielded |-> <<>>, live |-> TRUE]
    /\ UNCHANGED <<res, de>>
    /\ readFrame

\* Iter::next on a live iterator that has items left; a None is not recorded.
IterNext ==
    /\ Archived
    /\ iter_st.live
    /\ LET n == RawIter_next([current |-> iter_st.current,
                              remaining |-> iter_st.remaining])
       IN  /\ n.item.some
           /\ iter_st' = [current |-> n.it.current,
                          remaining |-> n.it.remaining,
                          yielded |-> Append(iter_st.yielded, n.item.val),
                          live |-> TRUE]
    /\ UNCHANGED <<res, de>>
    /\ readFrame

\* ------------------------------------------------------------ deserialize
\* let mut result = IndexMap::with_capacity(self.len()); the deserializer
\* fails on the keys dk and the values dv of the archive.
DeserializeBegin ==
    /\ Fresh
    /\ \E dk \in SUBSET {Archived_deserialize(iter(root)[i][1]) : i \in 1..Len(iter(root))} :
       \E dv \in SUBSET {Archived_deserialize(iter(root)[i][2]) : i \in 1..Len(iter(root))} :
         de' = [st |-> "loop", result |-> <<>>, it |-> raw_iter(root),
                dk |-> dk, dv |-> dv, log |-> <<>>, ret |-> Pending]
    /\ UNCHANGED <<res, iter_st>>
    /\ readFrame

\* The loop turn that, on a failing element, returns what was inserted so far.
DeserializeStep_partial ==
    /\ pc = "archived"
    /\ de.st = "loop"
    /\ LET n == RawIter_next(de.it)
           k == n.item.val[1]
           v == n.item.val[2]
       IN  IF ~n.item.some
           THEN de' = [de EXCEPT !.st = "returned", !.ret = Ok(de.result),
                                 !.result = <<>>]
           ELSE IF Archived_deserialize(k) \in de.dk \/ Archived_deserialize(v) \in de.dv
           THEN de' = [de EXCEPT !.st = "returned", !.ret = Ok(de.result),
                                 !.log = Append(@, <<"key", Archived_deserialize(k)>>),
                                 !.it = n.it,
                                 !.result = <<>>]
           ELSE de' = [de EXCEPT !.result = IndexMap_insert(@, Archived_deserialize(k),
                                                            Archived_deserialize(v)),
                                 !.log = @ \o << <<"key", Archived_deserialize(k)>>,
                                                 <<"value", Archived_deserialize(v)>> >>,
                                 !.it = n.it]
    /\ UNCHANGED <<res, iter_st>>
    /\ UNCHANGED <<src, failK, failV, pc, buf, log, ret, root, prev, prev_src>>
    /\ UNCHANGED <<entries, resolvers, index_resolver, entries_pos, pivots_pos>>

\* One turn of `for (k, v) in self.iter()`: the key is deserialized, then
\* the value, then the pair is inserted; the first Err is returned and the
\* local result is dropped.  When the iterator is finished, Ok(result).
DeserializeStep ==
    /\ Archived
    /\ de.st = "loop"
    /\ LET n == RawIter_next(de.it)
           k == n.item.val[1]
           v == n.item.val[2]
       IN  IF ~n.item.some
           THEN de' = [de EXCEPT !.st = "returned", !.ret = Ok(de.result),
                                 !.result = <<>>]
           ELSE IF Archived_deserialize(k) \in de.dk
           THEN de' = [de EXCEPT !.st = "returned",
                                 !.ret = Err(<<"key", Archived_deserialize(k)>>),
                                 !.log = Append(@, <<"key", Archived_deserialize(k)>>),
                                 !.it = n.it,
                                 !.result = <<>>]
           ELSE IF Archived_deserialize(v) \in de.dv
           THEN de' = [de EXCEPT !.st = "returned",
                                 !.ret = Err(<<"value", Archived_deserialize(v)>>),
                                 !.log = @ \o << <<"key", Archived_deserialize(k)>>,
                                                 <<"value", Archived_deserialize(v)>> >>,
                                 !.it = n.it,
                                 !.result = <<>>]
           ELSE de' = [de EXCEPT !.result = IndexMap_insert(@, Archived_deserialize(k),
                                                            Archived_deserialize(v)),
                                 !.log = @ \o << <<"key", Archived_deserialize(k)>>,
                                                 <<"value", Archived_deserialize(v)>> >>,
                                 !.it = n.it]
    /\ UNCHANGED <<res, iter_st>>
    /\ readFrame

\* ------------------------------------------------- a second map, same buffer
\* serializer.serialize_value(&other) after a first archive: the first root
\* stays where it is, the serializer goes on appending.
SerializeNext ==
    /\ Archived
    /\ prev = 0
    /\ prev' = root
    /\ prev_src' = src
    /\ src' \in PairMaps
    /\ root' = 0
    /\ pc' = "start"
    /\ ret' = Pending
    /\ log' = <<>>
    /\ UNCHANGED <<failK, failV, buf>>
    /\ UNCHANGED serVars
    /\ UNCHANGED readVars

Next ==
    \/ BuildIndex
    \/ SerializeEntry
    \/ AlignEntries
    \/ ResolveEntry
    \/ AlignPivots
    \/ WritePivot
    \/ ReturnOk
    \/ Resolve
    \/ Get
    \/ GetFull
    \/ GetIndexOf
    \/ GetIndex
    \/ EqMap
    \/ IterNew
    \/ IterNext
    \/ DeserializeBegin
    \/ DeserializeStep

Spec == Init /\ [][Next]_vars

\* Two maps serialized one after the other into one buffer, then compared.
InitPair ==
    /\ src \in PairMaps
    /\ failK = {}
    /\ failV = {}
    /\ InitRest

NextPair ==
    \/ BuildIndex
    \/ SerializeEntry
    \/ AlignEntries
    \/ ResolveEntry
    \/ AlignPivots
    \/ WritePivot
    \/ ReturnOk
    \/ Resolve
    \/ SerializeNext
    \/ EqArchived

SpecPair == InitPair /\ [][NextPair]_vars

\* ---------------------------------------------------------------- claims
HasKey(m, k) == \E i \in 1..Len(m) : m[i][1] = k
ValueOf(m, k) == m[CHOOSE i \in 1..Len(m) : m[i][1] = k][2]

\* The pairs an archive shows are, position by position, those of m.
PairsMatch(views, m) ==
    /\ Len(views) = Len(m)
    /\ \A i \in 1..Len(m) :
         ArchivedEq(views[i][1], m[i][1]) /\ ArchivedEq(views[i][2], m[i][2])

\* The element (de)serialize calls a walk over m makes when nothing fails:
\* key then value, pair by pair in insertion order.
ExpectedCalls(m) ==
    [j \in 1..(2 * Len(m)) |->
        IF j % 2 = 1 THEN <<"key", m[(j + 1) \div 2][1]>>
                     ELSE <<"value", m[j \div 2][2]>>]

Fails(c, fk, fv) == (c[1] = "key" /\ c[2] \in fk) \/ (c[1] = "value" /\ c[2] \in fv)

FailingCalls(m, fk, fv) ==
    {j \in 1..(2 * Len(m)) : Fails(ExpectedCalls(m)[j], fk, fv)}

FirstFail(m, fk, fv) ==
    CHOOSE j \in FailingCalls(m, fk, fv) : \A g \in FailingCalls(m, fk, fv) : j <= g

\* C1: get(k) on the archive returns the value the source associates with
\* k for every inserted key, and None for every key never inserted, also
\* when the hash index answers an occupied slot for that key.
C1_GetReturnsOriginalOrNone ==
    res.op = "get" =>
        IF HasKey(src, res.key)
        THEN res.out.some /\ ArchivedEq(res.out.val, ValueOf(src, res.key))
        ELSE res.out = None

C1_Witness ==
    /\ res.op = "get"
    /\ ~HasKey(src, res.key)
    /\ res.slot.some
    /\ Len(src) >= 2
    /\ res.out = None

\* C2: iter() yields exactly len() pairs, the source's pairs in insertion
\* order, whatever slot order the hash index chose.
C2_IterInsertionOrder ==
    /\ Archived => /\ PairsMatch(iter(root), src)
                   /\ Len(iter(root)) = len(root)
    /\ iter_st.live =>
         /\ Len(iter_st.yielded) + iter_st.remaining = len(root)
         /\ PairsMatch(iter_st.yielded, SubSeq(src, 1, Len(iter_st.yielded)))

C2_Witness ==
    /\ iter_st.live
    /\ iter_st.remaining = 0
    /\ Len(iter_st.yielded) = 2
    /\ pivot(root, 0) = 1
    /\ pivot(root, 1) = 0

\* C3: deserializing the archive of m, when no element fails, gives a map
\* equal to m: the same pairs in the same insertion order (the empty map
\* included).
C3_RoundTrip ==
    (de.st = "returned" /\ FailingCalls(src, de.dk, de.dv) = {}) =>
        de.ret = Ok(src)

C3_Witness ==
    /\ de.st = "returned"
    /\ IsOk(de.ret)
    /\ Len(de.ret.val) = 2
    /\ de.ret.val[1][2] # de.ret.val[2][2]
    /\ pivot(root, 0) # 0

\* C4: an archived map equals a mutable map exactly when the archive's
\* pairs and the map's pairs are equal position by position, which needs
\* the same length.
C4_EqMapIsSequenceEquality ==
    res.op = "eq_map" => (res.out <=> PairsMatch(iter(root), res.other))

\* C5: two archived maps are equal exactly when their iter() sequences have
\* the same length and equal pairs at every position; two archives whose
\* sources hold the same pairs with two distinct pairs swapped are unequal.
Swapped(m1, m2) ==
    /\ Len(m1) = Len(m2)
    /\ \E i, j \in 1..Len(m1) :
         /\ i # j
         /\ m1[i] # m1[j]
         /\ m2 = [m1 EXCEPT ![i] = m1[j], ![j] = m1[i]]

C5_EqIsOrderedSequenceEquality ==
    res.op = "eq" =>
        /\ res.out <=>
             /\ Len(iter(res.a)) = Len(iter(res.b))
             /\ \A i \in 1..Len(iter(res.a)) : iter(res.a)[i] = iter(res.b)[i]
        /\ Swapped(prev_src, src) => ~res.out

C5_Witness ==
    /\ res.op = "eq"
    /\ Swapped(prev_src, src)
    /\ ~res.out

\* C6: get_index(i) is the i-th pair of iter() when i < len(); when
\* i >= len() it is None and no entry is read.
C6_GetIndexMatchesIter ==
    res.op = "get_index" =>
        IF res.index < len(root)
        THEN res.out = Some(iter(root)[res.index + 1])
        ELSE res.out = None /\ res.read = {}

C6_Witness ==
    /\ res.op = "get_index"
    /\ res.index = 1
    /\ len(root) = 2
    /\ res.out.some

\* C7: for an inserted key k, get_index_of(k) is the position of k in
\* iter(), its insertion position; get_full(k) is that position with the
\* key and value stored there; get_index(get_index_of(k)) is the pair whose
\* key is k.
PositionInIter(r, k) ==
    (CHOOSE i \in 1..Len(iter(r)) : ArchivedEq(iter(r)[i][1], k)) - 1

C7_IndexOfIsIterPosition ==
    /\ (res.op = "get_index_of" /\ HasKey(src, res.key)) =>
         /\ res.out = Some(PositionInIter(root, res.key))
         /\ res.out = IndexMap_get_index_of(src, res.key)
         /\ get_index(root, res.out.val).out.some
         /\ ArchivedEq(get_index(root, res.out.val).out.val[1], res.key)
    /\ (res.op = "get_full" /\ HasKey(src, res.key)) =>
         /\ res.out.some
         /\ res.out.val[1] = PositionInIter(root, res.key)
         /\ res.out.val[1] = IndexMap_get_index_of(src, res.key).val
         /\ <<res.out.val[2], res.out.val[3]>> = iter(root)[res.out.val[1] + 1]
         /\ ArchivedEq(res.out.val[2], res.key)

C7_Witness ==
    /\ res.op = "get_full"
    /\ HasKey(src, res.key)
    /\ res.out.some
    /\ res.out.val[1] = 1
    /\ res.slot = Some(0)

\* C8: deserialize walks the entries in insertion order, key before value;
\* at the first element that fails it stops: the error returned is that
\* element's, nothing after it is deserialized, and the caller gets the
\* error only, no map.
C8_DeserializeFirstError ==
    (de.st = "returned" /\ FailingCalls(src, de.dk, de.dv) # {}) =>
        LET f == FirstFail(src, de.dk, de.dv)
        IN  /\ de.ret = Err(ExpectedCalls(src)[f])
            /\ de.log = SubSeq(ExpectedCalls(src), 1, f)
            /\ de.result = <<>>

C8_Witness ==
    /\ de.st = "returned"
    /\ IsErr(de.ret)
    /\ FirstFail(src, de.dk, de.dv) = 3
    /\ 4 \in FailingCalls(src, de.dk, de.dv)

\* C9: when a key or a value fails to serialize, serialize returns that
\* error, the first failure in insertion order with the key before the value
\* of a pair; it returns no resolver, serializes nothing after the failing
\* element and writes no entry and no pivot.
NoEntryOrPivotWritten ==
    \A i \in 1..Len(buf) : buf[i].t \notin {"entry", "pivot", "root"}

C9_SerializeFirstError ==
    (FailingCalls(src, failK, failV) # {}) =>
        LET f == FirstFail(src, failK, failV)
        IN  /\ pc \in {"start", "collect", "returned"}
            /\ NoEntryOrPivotWritten
            /\ root = 0
            /\ Len(log) <= f
            /\ log = SubSeq(ExpectedCalls(src), 1, Len(log))
            /\ pc = "returned" =>
                 /\ IsErr(ret)
                 /\ \/ ret = Err(SerializerError) /\ log = <<>>
                    \/ ret = Err(ExpectedCalls(src)[f]) /\ Len(log) = f

C9_Witness ==
    /\ pc = "returned"
    /\ FailingCalls(src, failK, failV) # {}
    /\ FirstFail(src, failK, failV) = 3
    /\ 4 \in FailingCalls(src, failK, failV)
    /\ ret = Err(ExpectedCalls(src)[3])

\* C10: an archive of a map with n unique keys has n entries, n pivots
\* and a hash index of len n; every pivot lies in [0, n); the pivots are a
\* permutation of 0..n-1, the pivot at the slot of key k being the
\* insertion position of k.
C10_PivotsArePermutation ==
    Archived =>
        LET n == Len(src)
            e == RelPtr_as_ptr(root, buf[root].entries)
            p == RelPtr_as_ptr(root, buf[root].pivots)
        IN  /\ len(root) = n
            /\ p - e = n
            /\ root - p = n
            /\ \A i \in 0..(n - 1) :
                 /\ buf[e + i].t = "entry"
                 /\ buf[p + i].t = "pivot"
                 /\ pivot(root, i) \in 0..(n - 1)
            /\ \A i, j \in 0..(n - 1) : pivot(root, i) = pivot(root, j) => i = j
            /\ \A i \in 0..(n - 1) : \E j \in 0..(n - 1) : pivot(root, j) = i
            /\ \A i \in 1..n : \A slot \in HashIndex_index(root, src[i][1]) :
                 slot.some /\ pivot(root, slot.val) = i - 1

C10_Witness ==
    /\ Archived
    /\ Len(src) = 2
    /\ pivot(root, 0) = 1
    /\ pivot(root, 1) = 0
====
